---- MODULE Spec2Model ----
(***************************************************************************)
(* Model of the retrying completion pipeline of src/OpenAIapiLLMapp.py:    *)
(* LLMWorkflow.send_query, LLMWorkflow.clear_context, Model.token_count,   *)
(* simple_send_with_retries and retry_exceptions.                          *)
(*                                                                         *)
(* Delays are kept in units of 1/8 second, so that 0.125 s is 1 and the    *)
(* 60 s ceiling is 480; doubling a power of two is exact in binary         *)
(* floating point, so the integers follow the floats of the code exactly.  *)
(***************************************************************************)
EXTENDS Integers, Sequences, FiniteSets, TLC

VARIABLES
    messages,     \* LLMWorkflow.messages, the conversation history
    pc,           \* "idle": no send_query in flight; "sending": inside the retry loop
    retry_delay,  \* local of simple_send_with_retries (1/8 s)
    token_count,  \* local of send_query: the count of the last budget check
    stub,         \* the transport's behaviour during the current send_query
    failsLeft,    \* provider errors the transport still raises before stub.then
    prior,        \* history: messages when the last send_query was called
    query,        \* history: user_query of the last send_query
    last,         \* history: the last operation called on the workflow
    clearCalls,   \* history: clear_context calls made by the last send_query
    sendCalls,    \* history: simple_send_with_retries calls made by the last send_query
    attempts,     \* history: send_completion calls made by the last send_query
    sleeps,       \* history: arguments of time.sleep during the last send_query
    lastErr,      \* history: the last exception raised inside the try block
    lastResp,     \* history: the last response the transport returned
    retryRet,     \* history: what simple_send_with_retries returned
    ret,          \* history: what send_query returned
    raised,       \* history: an exception left send_query
    app,          \* the script that runs: "openai" (OpenAIapiLLMapp) or "azure" (AzureapiLLMapp)
    running,      \* the while loop of main has not ended
    line,         \* history: the last line main read from input()
    completion,   \* history: the last send_completion call, its arguments and its request
    cred          \* the credential: command line, environment, resolved, used by the transport

vars == <<messages, pc, retry_delay, token_count, stub, failsLeft, prior, query,
          last, clearCalls, sendCalls, attempts, sleeps, lastErr, lastResp,
          retryRet, ret, raised, app, running, line, completion, cred>>

consoleVars == <<app, running, line>>
callVars == <<completion, cred>>

----------------------------------------------------------------------------
\* Bounds of the model.
MaxTurns == 4      \* send_query is only called while its two turns still fit
MaxFails == 9      \* the transport fails at most this often before stub.then
MaxAttempts == 12  \* no more transport calls than this in one send_query

\* Program constants.
max_input_tokens == 4096   \* Model.get_model_info
RetryDelayInit == 1        \* retry_delay = 0.125
RetryCeiling == 480        \* if retry_delay > 60

None == "None"
NoneNone == [content |-> None, usage |-> None]
NoRet == [content |-> "-", usage |-> "-"]

----------------------------------------------------------------------------
\* Inputs: the texts a user can type and a model can answer.
UserTexts == {"hi", "long", "huge"}
AssistantTexts == {"hello", "essay"}
Usages == {"usage_3_1_4"}

\* len(litellm.encode(model, text)): the number of tokens of a text.
EncodeLen(text) ==
    CASE text = "hi" -> 1
      [] text = "long" -> 2048
      [] text = "huge" -> 4097
      [] text = "hello" -> 1
      [] text = "essay" -> 2048
      [] OTHER -> 0

UserTurn(content) == [role |-> "user", content |-> content]

AssistantTurnAsUser(content) == [role |-> "user", content |-> content]

AssistantTurn(content) == [role |-> "assistant", content |-> content]

\* Model.token_count on a list of message dictionaries.
RECURSIVE TokenCount(_)
TokenCount(msgs) ==
    IF msgs = <<>> THEN 0
    ELSE EncodeLen(Head(msgs).content) + TokenCount(Tail(msgs))

MessagesAfterCountExtracted(msgs) ==
    [i \in 1..Len(msgs) |-> [role |-> None, content |-> msgs[i].content]]

\* Model.token_count rebinds its local name messages to the list of contents;
\* the list of the caller is what it was.
MessagesAfterCount(msgs) == msgs

OverBudgetInclusive(count) == count >= max_input_tokens

OverBudgetOffByOne(count) == count > max_input_tokens + 1

\* send_query's budget test.
OverBudget(count) == count > max_input_tokens

ClearKeepsLast(msgs) == IF msgs = <<>> THEN <<>> ELSE <<msgs[Len(msgs)]>>

\* LLMWorkflow.clear_context: the new value of self.messages.
ClearContextResult(msgs) == <<>>

----------------------------------------------------------------------------
\* Exceptions.  Base gives the direct base class of each class (httpx and
\* openai class hierarchies, intermediate httpx classes left out).
ProviderErrors == {"ConnectError", "ReadTimeout", "APITimeoutError", "RateLimitError",
                   "InternalServerError", "BadRequestError", "AuthenticationError"}
OtherErrors == {"ValueError", "AttributeError"}
ErrorKinds == ProviderErrors \cup OtherErrors

Base(c) ==
    CASE c = "ConnectError" -> "Exception"
      [] c = "RemoteProtocolError" -> "Exception"
      [] c = "ReadTimeout" -> "Exception"
      [] c = "APIError" -> "Exception"
      [] c = "APIConnectionError" -> "APIError"
      [] c = "APITimeoutError" -> "APIConnectionError"
      [] c = "APIStatusError" -> "APIError"
      [] c = "UnprocessableEntityError" -> "APIStatusError"
      [] c = "RateLimitError" -> "APIStatusError"
      [] c = "InternalServerError" -> "APIStatusError"
      [] c = "BadRequestError" -> "APIStatusError"
      [] c = "AuthenticationError" -> "APIStatusError"
      [] c = "ValueError" -> "Exception"
      [] c = "AttributeError" -> "Exception"
      [] OTHER -> "BaseException"

RECURSIVE IsInstance(_, _)
IsInstance(e, c) ==
    \/ e = c
    \/ e # "BaseException" /\ IsInstance(Base(e), c)

\* retry_exceptions(): the tuple of classes the retry clause catches.
retry_exceptions ==
    {"ConnectError", "RemoteProtocolError", "ReadTimeout", "APITimeoutError",
     "UnprocessableEntityError", "RateLimitError", "APIConnectionError",
     "APIError", "APIStatusError", "InternalServerError"}

RetriesEverything(e) == TRUE

\* except retry_exceptions() as err
IsRetryable(e) == \E c \in retry_exceptions : IsInstance(e, c)

CatchesNothing(e) == FALSE

\* except Exception as err
CaughtByGeneric(e) == IsInstance(e, "Exception")

----------------------------------------------------------------------------
\* Provider responses.  shape tells what the structure test of
\* simple_send_with_retries finds.
Shapes == {"ok", "no_choices", "empty_choices", "no_message", "message_none"}

Responses ==
    [shape : {"ok"}, content : AssistantTexts \cup {None}, usage : Usages \cup {None}]
    \cup [shape : Shapes \ {"ok"}, content : {None}, usage : Usages \cup {None}]

NoResp == [shape |-> "none", content |-> None, usage |-> None]

\* hasattr(response, 'choices') and response.choices and
\* hasattr(response.choices[0], 'message')
HasExpectedStructure(response) == response.shape \in {"ok", "message_none"}

ExtractRaisesUnchecked(response) == response.shape # "ok"

\* response.choices[0].message.content raises AttributeError when message is None
ExtractRaises(response) == response.shape = "message_none"

ExtractContent(response) ==
    IF HasExpectedStructure(response) THEN response.content ELSE None

\* getattr(response, 'usage', None)
ExtractUsage(response) == response.usage

NoDoubling(d) == d

\* retry_delay *= 2
NextDelay(d) == d * 2

CeilingTwiceAsHigh(d) == d > 2 * RetryCeiling

\* if retry_delay > 60
ExceedsCeiling(d) == d > RetryCeiling

SleepBeforeDoubling(old, new) == old

\* time.sleep(retry_delay), called after the doubling
SleepDuration(old, new) == new

NeverNone(response) == FALSE

\* if response is None
ResponseIsNone(response) == response = None

----------------------------------------------------------------------------
\* send_completion.  A dictionary is a function from its keys; an optional
\* dictionary says whether it is given.
ModelName == "gpt-3.5-turbo"
NoExtra == [given |-> FALSE, dict |-> <<>>]

DictUpdateKeepsOld(a, b) ==
    [k \in DOMAIN a \cup DOMAIN b |-> IF k \in DOMAIN a THEN a[k] ELSE b[k]]

\* dict.update
DictUpdate(a, b) ==
    [k \in DOMAIN a \cup DOMAIN b |-> IF k \in DOMAIN b THEN b[k] ELSE a[k]]

\* The kwargs send_completion passes to litellm.completion.
send_completion(model_name, msgs, stream, temperature, extra_params) ==
    LET base == [model |-> model_name, messages |-> msgs, stream |-> stream]
        withTemperature ==
            IF temperature # None
            THEN [k \in DOMAIN base \cup {"temperature"} |->
                     IF k = "temperature" THEN temperature ELSE base[k]]
            ELSE base
    IN  IF extra_params.given
        THEN DictUpdate(withTemperature, extra_params.dict)
        ELSE withTemperature

\* One call of send_completion: one call of litellm.completion with the kwargs.
CompletionCall(args) ==
    [calls |-> 1,
     args |-> args,
     kwargs |-> send_completion(args.model_name, args.messages, args.stream,
                                args.temperature, args.extra_params)]

\* The arguments simple_send_with_retries gives send_completion; temperature
\* is the default of send_completion.
WorkflowArgs(msgs) ==
    [model_name |-> ModelName, messages |-> msgs, stream |-> "False",
     temperature |-> "0", extra_params |-> NoExtra]

NoCompletion == [calls |-> 0, args |-> WorkflowArgs(<<>>), kwargs |-> <<>>]

\* The credential.
Placeholder == "your default api key"
NoRequest == "-"
Truthy(value) == value # None /\ value # ""

\* args.api_key or os.getenv(name, 'your default api key')
ResolveApiKey(arg, env) ==
    IF Truthy(arg) THEN arg
    ELSE IF env # None THEN env
    ELSE Placeholder

\* The credential of a request.  AzureOpenAI is constructed with api_key;
\* litellm.completion is given no key by send_completion and reads the
\* environment (None: variable not set).
TransportKey(a, c) == IF a = "azure" THEN c.api_key ELSE c.env

DefaultCred ==
    [phase |-> "main", arg |-> None, env |-> "sk-env", api_key |-> "sk-env",
     used |-> NoRequest]

----------------------------------------------------------------------------
Stubs == [fails : 0..MaxFails, then : {"succeed", "fatal"}]
         \cup [fails : {0}, then : {"fail_forever"}]

InitWorkflow ==
    /\ messages = <<>>
    /\ pc = "idle"
    /\ retry_delay = RetryDelayInit
    /\ token_count = 0
    /\ stub = [fails |-> 0, then |-> "succeed"]
    /\ failsLeft = 0
    /\ prior = <<>>
    /\ query = None
    /\ last = "init"
    /\ clearCalls = 0
    /\ sendCalls = 0
    /\ attempts = 0
    /\ sleeps = <<>>
    /\ lastErr = None
    /\ lastResp = NoResp
    /\ retryRet = NoRet
    /\ ret = NoRet
    /\ raised = FALSE
    /\ app \in {"openai", "azure"}
    /\ running = TRUE
    /\ line = None

Init ==
    /\ InitWorkflow
    /\ completion = NoCompletion
    /\ cred = DefaultCred

\* send_query from its call to the first transport call (or to its return
\* when the budget is exceeded).
SendQuery(user_query, s) ==
    /\ pc = "idle"
    /\ Len(messages) + 2 <= MaxTurns
    /\ LET appended == Append(messages, UserTurn(user_query))
           count == TokenCount(appended)
           counted == MessagesAfterCount(appended)
       IN  /\ token_count' = count
           /\ IF OverBudget(count)
              THEN /\ messages' = ClearContextResult(counted)
                   /\ clearCalls' = 1
                   /\ sendCalls' = 0
                   /\ ret' = NoneNone
                   /\ pc' = "idle"
              ELSE /\ messages' = counted
                   /\ clearCalls' = 0
                   /\ sendCalls' = 1
                   /\ ret' = NoRet
                   /\ pc' = "sending"
    /\ retry_delay' = RetryDelayInit
    /\ stub' = s
    /\ failsLeft' = s.fails
    /\ prior' = messages
    /\ query' = user_query
    /\ last' = "send_query"
    /\ attempts' = 0
    /\ sleeps' = <<>>
    /\ lastErr' = None
    /\ lastResp' = NoResp
    /\ retryRet' = NoRet
    /\ raised' = FALSE

\* simple_send_with_retries returns (content, usage) and send_query runs to
\* its return.
ReturnFromRetries(content, usage) ==
    /\ retryRet' = [content |-> content, usage |-> usage]
    /\ pc' = "idle"
    /\ raised' = raised
    /\ IF ResponseIsNone(content)
       THEN /\ messages' = messages
            /\ ret' = NoneNone
       ELSE /\ messages' = Append(messages, AssistantTurn(content))
            /\ ret' = [content |-> content, usage |-> usage]

\* The except clauses of simple_send_with_retries for an exception e raised
\* inside the try block.
HandleError(e) ==
    /\ lastErr' = e
    /\ IF IsRetryable(e)
       THEN /\ retry_delay' = NextDelay(retry_delay)
            /\ IF ExceedsCeiling(NextDelay(retry_delay))
               THEN /\ ReturnFromRetries(None, None)
                    /\ sleeps' = sleeps
               ELSE /\ sleeps' = Append(sleeps, SleepDuration(retry_delay, NextDelay(retry_delay)))
                    /\ UNCHANGED <<messages, pc, retryRet, ret, raised>>
       ELSE /\ UNCHANGED <<retry_delay, sleeps>>
            /\ IF CaughtByGeneric(e)
               THEN ReturnFromRetries(None, None)
               ELSE /\ raised' = TRUE
                    /\ pc' = "idle"
                    /\ UNCHANGED <<messages, retryRet, ret>>

\* One iteration of the retry loop in which send_completion returns.
TransportReturns(response) ==
    /\ pc = "sending"
    /\ attempts < MaxAttempts
    /\ failsLeft = 0
    /\ stub.then = "succeed"
    /\ attempts' = attempts + 1
    /\ lastResp' = response
    /\ IF ExtractRaises(response)
       THEN HandleError("AttributeError")
       ELSE /\ ReturnFromRetries(ExtractContent(response), ExtractUsage(response))
            /\ UNCHANGED <<retry_delay, sleeps, lastErr>>
    /\ UNCHANGED <<token_count, stub, failsLeft, prior, query, last, clearCalls, sendCalls>>
    /\ UNCHANGED consoleVars
    /\ completion' = CompletionCall(WorkflowArgs(messages))
    /\ UNCHANGED cred

\* One iteration of the retry loop in which send_completion raises e.
TransportRaises(e) ==
    /\ pc = "sending"
    /\ attempts < MaxAttempts
    /\ \/ (failsLeft > 0 \/ stub.then = "fail_forever") /\ e \in ProviderErrors
       \/ failsLeft = 0 /\ stub.then = "fatal" /\ e \in OtherErrors
    /\ attempts' = attempts + 1
    /\ failsLeft' = IF failsLeft > 0 THEN failsLeft - 1 ELSE 0
    /\ HandleError(e)
    /\ UNCHANGED <<token_count, stub, prior, query, last, clearCalls, sendCalls, lastResp>>
    /\ UNCHANGED consoleVars
    /\ completion' = CompletionCall(WorkflowArgs(messages))
    /\ UNCHANGED cred

\* LLMWorkflow.clear_context called by the owner of the workflow.
ClearContext ==
    /\ pc = "idle"
    /\ messages' = ClearContextResult(messages)
    /\ last' = "clear_context"
    /\ UNCHANGED <<pc, retry_delay, token_count, stub, failsLeft, prior, query,
                   clearCalls, sendCalls, attempts, sleeps, lastErr, lastResp,
                   retryRet, ret, raised>>

Attempt ==
    \/ \E response \in Responses : TransportReturns(response)
    \/ \E e \in ErrorKinds : TransportRaises(e)

----------------------------------------------------------------------------
\* The console loops.  Lines are what input() can return.
ExitCommands == {"exit", "quit"}
ClearCommands == {"clear", "reset"}
Lines == UserTexts \cup {"exit", "QUIT", "clear", "Reset"}

LowerIdentity(text) == text

\* str.lower()
Lower(text) ==
    CASE text = "QUIT" -> "quit"
      [] text = "Reset" -> "reset"
      [] OTHER -> text

\* main of either script: message.lower() in ['exit', 'quit'] ends the loop.
MainExit(message) ==
    /\ running
    /\ pc = "idle"
    /\ Lower(message) \in ExitCommands
    /\ running' = FALSE
    /\ line' = message
    /\ last' = "exit"
    /\ UNCHANGED <<messages, pc, retry_delay, token_count, stub, failsLeft, prior,
                   query, clearCalls, sendCalls, attempts, sleeps, lastErr,
                   lastResp, retryRet, ret, raised, app>>
    /\ UNCHANGED callVars

\* main of OpenAIapiLLMapp: message.lower() in ['clear', 'reset'].
MainClear(message) ==
    /\ app = "openai"
    /\ running
    /\ Lower(message) \notin ExitCommands
    /\ Lower(message) \in ClearCommands
    /\ ClearContext
    /\ line' = message
    /\ UNCHANGED <<app, running>>
    /\ UNCHANGED callVars

\* main of OpenAIapiLLMapp: any other line goes to send_query.
MainSubmit(message, s) ==
    /\ app = "openai"
    /\ running
    /\ Lower(message) \notin ExitCommands
    /\ Lower(message) \notin ClearCommands
    /\ SendQuery(message, s)
    /\ line' = message
    /\ UNCHANGED <<app, running>>
    /\ UNCHANGED callVars

\* The attribute reads of OpenAIChatClient.print_completion_info raise on a
\* completion without choices, message or usage.
PrintRaises(response) == response.shape # "ok" \/ response.usage = None

\* main of AzureapiLLMapp: any line but exit and quit goes to get_completion,
\* which makes one request and turns an exception into None; then
\* print_completion_info prints the completion, and an exception it raises
\* ends main.
AzureSubmit(message) ==
    /\ app = "azure"
    /\ running
    /\ pc = "idle"
    /\ Lower(message) \notin ExitCommands
    /\ line' = message
    /\ query' = message
    /\ last' = "get_completion"
    /\ attempts' = 1
    /\ \/ \E response \in Responses :
             /\ lastResp' = response
             /\ IF PrintRaises(response)
                THEN lastErr' = "AttributeError" /\ running' = FALSE
                ELSE lastErr' = None /\ running' = TRUE
       \/ \E e \in ErrorKinds :
             /\ lastResp' = NoResp
             /\ lastErr' = e
             /\ running' = TRUE
    /\ UNCHANGED <<messages, pc, retry_delay, token_count, stub, failsLeft, prior,
                   clearCalls, sendCalls, sleeps, retryRet, ret, raised, app>>
    /\ UNCHANGED callVars

Next ==
    \/ \E message \in Lines : MainExit(message)
    \/ \E message \in Lines : MainClear(message)
    \/ \E message \in Lines, s \in Stubs : MainSubmit(message, s)
    \/ \E message \in Lines : AzureSubmit(message)
    \/ \E response \in Responses : TransportReturns(response)
    \/ \E e \in ErrorKinds : TransportRaises(e)

Spec == Init /\ [][Next]_vars

\* The transport call and the sleep of an iteration end: a retry loop that
\* can take a step takes it.
FairSpec == Spec /\ WF_vars(Attempt)

----------------------------------------------------------------------------
\* send_completion on its own, for every combination of arguments.
ArgModels == {ModelName, "gpt-4o"}
ArgMessages == { << UserTurn("hi") >>,
                 << UserTurn("hi"), AssistantTurn("hello"), UserTurn("long") >> }
ArgStreams == {"False", "True"}
ArgTemperatures == {None, "0", "1"}
ExtraKeys == {"model", "messages", "stream", "temperature", "max_tokens"}

ExtraValue(k) ==
    CASE k = "model" -> "azure/gpt-4o"
      [] k = "messages" -> << UserTurn("long") >>
      [] k = "stream" -> "True"
      [] k = "temperature" -> "0.7"
      [] OTHER -> "100"

ExtraParams ==
    {NoExtra} \cup {[given |-> TRUE, dict |-> [k \in K |-> ExtraValue(k)]] : K \in SUBSET ExtraKeys}

CompletionInit ==
    /\ InitWorkflow
    /\ app = "openai"
    /\ cred = DefaultCred
    /\ completion \in [calls : {0},
                        args : [model_name : ArgModels, messages : ArgMessages,
                                stream : ArgStreams, temperature : ArgTemperatures,
                                extra_params : ExtraParams],
                        kwargs : {<<>>}]

SendCompletion ==
    /\ completion.calls = 0
    /\ completion' = CompletionCall(completion.args)
    /\ UNCHANGED <<messages, pc, retry_delay, token_count, stub, failsLeft, prior,
                   query, last, clearCalls, sendCalls, attempts, sleeps, lastErr,
                   lastResp, retryRet, ret, raised, app, running, line, cred>>

CompletionSpec == CompletionInit /\ [][SendCompletion]_vars

----------------------------------------------------------------------------
\* The credential from the command line to the requests, for both scripts.
CredInit ==
    /\ InitWorkflow
    /\ completion = NoCompletion
    /\ cred \in [phase : {"start"}, arg : {None, "", "sk-arg"},
                  env : {None, "", "sk-env"}, api_key : {None}, used : {NoRequest}]

\* The __main__ block up to the call of main.
Startup ==
    /\ cred.phase = "start"
    /\ cred' = [cred EXCEPT !.phase = "main",
                            !.api_key = ResolveApiKey(cred.arg, cred.env)]
    /\ UNCHANGED <<messages, pc, retry_delay, token_count, stub, failsLeft, prior,
                   query, last, clearCalls, sendCalls, attempts, sleeps, lastErr,
                   lastResp, retryRet, ret, raised, app, running, line, completion>>

\* A line that is no command of the script makes a request.
CredRequest(message) ==
    /\ cred.phase = "main"
    /\ Lower(message) \notin ExitCommands
    /\ app = "openai" => Lower(message) \notin ClearCommands
    /\ cred' = [cred EXCEPT !.used = TransportKey(app, cred)]
    /\ line' = message
    /\ UNCHANGED <<messages, pc, retry_delay, token_count, stub, failsLeft, prior,
                   query, last, clearCalls, sendCalls, attempts, sleeps, lastErr,
                   lastResp, retryRet, ret, raised, app, running, completion>>

CredNext ==
    \/ Startup
    \/ \E message \in Lines : CredRequest(message)

CredSpec == CredInit /\ [][CredNext]_vars

----------------------------------------------------------------------------
\* Vocabulary of the properties.

\* send_query was the last operation and has ended.
Returned == last = "send_query" /\ pc = "idle"

\* The transcript the budget check of the last send_query counted.
Counted == Append(prior, [role |-> "user", content |-> query])

OverLimit == TokenCount(Counted) > max_input_tokens

RECURSIVE Pow2(_)
Pow2(n) == IF n <= 0 THEN 1 ELSE 2 * Pow2(n - 1)

ResultValues == [content : AssistantTexts \cup {None}, usage : Usages \cup {None}]

\* C1: when the transcript with the new user turn counts more than
\* max_input_tokens, send_query calls clear_context exactly once, makes no
\* transport call, returns (None, None) and leaves the transcript empty.
C1_BudgetExceededClears ==
    (last = "send_query" /\ OverLimit) =>
        /\ pc = "idle"
        /\ clearCalls = 1
        /\ sendCalls = 0
        /\ attempts = 0
        /\ ret = NoneNone
        /\ messages = <<>>

C1_Witness ==
    /\ Returned /\ OverLimit
    /\ Len(prior) = 2
    /\ TokenCount(prior) = max_input_tokens
    /\ clearCalls = 1
    /\ messages = <<>>

\* C2: when the transcript with the new user turn counts at most
\* max_input_tokens, send_query calls simple_send_with_retries exactly once
\* and never calls clear_context, whatever the send does.
C2_WithinBudgetSendsOnce ==
    (last = "send_query" /\ ~OverLimit) =>
        /\ sendCalls = 1
        /\ clearCalls = 0
        /\ messages # <<>>

C2_Witness ==
    /\ Returned
    /\ TokenCount(Counted) = max_input_tokens
    /\ sendCalls = 1
    /\ clearCalls = 0
    /\ retryRet = NoneNone

\* C3: when the budget check passes and simple_send_with_retries returns a
\* content that is not None, the transcript is the prior transcript, then the
\* user turn, then an assistant turn with that content, and send_query
\* returns the content with the usage of the provider response; from an
\* empty transcript the result has 2 turns.
C3_SuccessAppendsBoth ==
    (Returned /\ ~OverLimit /\ retryRet.content \in AssistantTexts) =>
        /\ messages = prior \o << [role |-> "user", content |-> query],
                                  [role |-> "assistant", content |-> retryRet.content] >>
        /\ ret = retryRet
        /\ ret.content = lastResp.content
        /\ ret.usage = lastResp.usage
        /\ (prior = <<>> => Len(messages) = 2)

C3_Witness ==
    /\ Returned
    /\ prior # <<>>
    /\ retryRet.content \in AssistantTexts
    /\ ret.usage \in Usages
    /\ Len(messages) = Len(prior) + 2

\* C4: when the budget check passes and simple_send_with_retries returns
\* content None, send_query returns (None, None) and the transcript is the
\* prior transcript followed by the user turn only; the turns already in the
\* prior transcript, dangling user turns included, were part of the count.
C4_FailedSendKeepsUserTurn ==
    (Returned /\ ~OverLimit /\ retryRet.content \notin AssistantTexts) =>
        /\ retryRet.content = None
        /\ ret = NoneNone
        /\ messages = Append(prior, [role |-> "user", content |-> query])
        /\ token_count = TokenCount(prior) + EncodeLen(query)

C4_Witness ==
    /\ Returned
    /\ retryRet.content = None
    /\ prior # <<>>
    /\ prior[Len(prior)].role = "user"
    /\ messages = Append(prior, [role |-> "user", content |-> query])
    /\ token_count = max_input_tokens

\* C5 as stated: a transport that fails k times and then succeeds is called
\* k+1 times and the sleeps are 0.125, 0.25, 0.5, ... for every k for which
\* those delays are at most 60.
C5_AsClaimed ==
    (Returned /\ ~OverLimit /\ stub.then = "succeed"
        /\ (\A i \in 1..stub.fails : Pow2(i - 1) <= RetryCeiling)) =>
        /\ attempts = stub.fails + 1
        /\ sleeps = [i \in 1..stub.fails |-> Pow2(i - 1)]

\* C5 amended: a transport that fails k times and then succeeds is called
\* k+1 times and the sleeps are 0.25, 0.5, 1, ...: the first sleep is the
\* double of the initial 0.125 and each later one the double of the one
\* before, for every k for which those delays are at most 60 (k <= 8).
C5_BackoffDoublesBeforeSleep ==
    (Returned /\ ~OverLimit /\ stub.then = "succeed"
        /\ (\A i \in 1..stub.fails : Pow2(i) <= RetryCeiling)) =>
        /\ attempts = stub.fails + 1
        /\ sleeps = [i \in 1..stub.fails |-> Pow2(i)]

C5_Witness ==
    /\ Returned
    /\ stub = [fails |-> 8, then |-> "succeed"]
    /\ attempts = 9
    /\ Len(sleeps) = 8
    /\ sleeps[1] = 2
    /\ sleeps[8] = 256
    /\ lastResp.shape = "ok"

\* C6: once the doubled delay exceeds 60 the policy has returned
\* (None, None) without sleeping and without another transport call, and no
\* sleep is ever longer than 60.
C6_CeilingEndsRetries ==
    /\ \A i \in 1..Len(sleeps) : sleeps[i] <= RetryCeiling
    /\ (retry_delay > RetryCeiling) =>
          /\ pc = "idle"
          /\ retryRet = NoneNone
          /\ Len(sleeps) = attempts - 1
          /\ lastResp = NoResp

C6_Witness ==
    /\ Returned
    /\ retry_delay > RetryCeiling
    /\ attempts = 9
    /\ Len(sleeps) = 8
    /\ retryRet = NoneNone

\* C7: a transport that raises a fatal error on the first attempt makes the
\* policy return (None, None) after exactly one attempt and no sleep.
C7_FatalNotRetried ==
    (last = "send_query" /\ ~OverLimit /\ stub = [fails |-> 0, then |-> "fatal"]) =>
        /\ pc = "sending" => attempts = 0
        /\ pc = "idle" =>
              /\ attempts = 1
              /\ sleeps = <<>>
              /\ retryRet = NoneNone
              /\ lastErr \in OtherErrors

C7_Witness ==
    /\ Returned
    /\ stub = [fails |-> 0, then |-> "fatal"]
    /\ lastErr = "ValueError"
    /\ attempts = 1
    /\ sleeps = <<>>
    /\ retryRet = NoneNone

\* C8 as stated: a malformed-request error or an authentication failure of
\* the provider is fatal: the attempt that raised it is the last one, no
\* sleep follows it and the policy has returned (None, None).
C8_AsClaimed ==
    (lastErr \in {"BadRequestError", "AuthenticationError"}) =>
        /\ pc = "idle"
        /\ retryRet = NoneNone
        /\ Len(sleeps) = attempts - 1

\* C9: the retry loop makes at most 9 transport attempts and every
\* send_query that reached the retry loop returns.
C9_SendQueryReturns ==
    /\ [](attempts <= 9)
    /\ (pc = "sending") ~> (pc = "idle")

C9_Witness ==
    /\ Returned
    /\ stub.then = "fail_forever"
    /\ attempts = 9
    /\ ret = NoneNone

\* C10: no exception leaves simple_send_with_retries or send_query: both
\* return a value; a loop ended by an exception returns (None, None) from
\* both, and every failure (budget, exception, malformed response) reaches
\* the caller of send_query as (None, None).
C10_NoFaultEscapes ==
    /\ ~raised
    /\ Returned =>
          /\ ret \in ResultValues
          /\ OverLimit => ret = NoneNone
          /\ ~OverLimit =>
                /\ retryRet \in ResultValues
                /\ (lastResp = NoResp \/ lastResp.shape = "message_none")
                      => (retryRet = NoneNone /\ ret = NoneNone)
                /\ (lastResp.shape \in {"no_choices", "empty_choices", "no_message"})
                      => (retryRet.content = None /\ ret = NoneNone)
                /\ (retryRet.content = None) => ret = NoneNone

C10_Witness ==
    /\ Returned
    /\ lastResp.shape = "message_none"
    /\ lastErr = "AttributeError"
    /\ attempts > 1
    /\ ret = NoneNone

\* C11: a response without choices, with empty choices or without a message
\* gives content None without an exception; the policy returns after that
\* attempt, with no sleep and no retry, and send_query returns (None, None)
\* and appends no assistant turn.
C11_MalformedResponseIsFailedSend ==
    (last = "send_query" /\ lastResp.shape \in {"no_choices", "empty_choices", "no_message"}) =>
        /\ pc = "idle"
        /\ retryRet = [content |-> None, usage |-> lastResp.usage]
        /\ ret = NoneNone
        /\ messages = Counted
        /\ attempts = stub.fails + 1
        /\ Len(sleeps) = stub.fails
        /\ lastErr \in ProviderErrors \cup {None}
        /\ stub.fails = 0 => (lastErr = None /\ attempts = 1 /\ sleeps = <<>>)

C11_Witness ==
    /\ Returned
    /\ lastResp.shape = "empty_choices"
    /\ lastResp.usage \in Usages
    /\ attempts = 1
    /\ lastErr = None
    /\ prior # <<>>
    /\ messages = Counted
    /\ ret = NoneNone

\* What send_query does on a freshly constructed workflow.
FreshSubmitStep ==
    /\ prior' = <<>>
    /\ token_count' = EncodeLen(query')
    /\ IF EncodeLen(query') > max_input_tokens
       THEN messages' = <<>> /\ pc' = "idle" /\ ret' = NoneNone
       ELSE messages' = << [role |-> "user", content |-> query'] >> /\ pc' = "sending"

\* C12: clear_context leaves the transcript empty whatever it held, a second
\* clear_context changes nothing, and a send_query after clear_context does
\* what a send_query on a new workflow does.
C12_ClearResets ==
    [][ /\ (last' = "clear_context") => (messages' = <<>>)
        /\ (last = "clear_context" /\ last' = "clear_context") => (messages' = messages)
        /\ (last \in {"init", "clear_context"} /\ last' = "send_query") => FreshSubmitStep
      ]_vars

C12_Witness ==
    /\ last = "clear_context"
    /\ messages = <<>>
    /\ Len(prior) = 2
    /\ retryRet.content \in AssistantTexts
    /\ running

\* Lines that equal a command when case is ignored.
ExitLines == {"exit", "QUIT"}
ClearLines == {"clear", "Reset"}

\* main waits in input().
ReadsLine == pc = "idle" /\ running

ExitStep ==
    /\ ~running'
    /\ last' = "exit"
    /\ pc' = "idle"
    /\ UNCHANGED <<messages, attempts, sendCalls, clearCalls, lastResp, lastErr>>

ClearStep ==
    /\ running'
    /\ last' = "clear_context"
    /\ messages' = <<>>
    /\ pc' = "idle"
    /\ UNCHANGED <<attempts, sendCalls, lastResp, lastErr>>

SubmitStep ==
    /\ last' = "send_query"
    /\ query' = line'
    /\ prior' = messages
    /\ sendCalls' + clearCalls' = 1
    /\ messages' = IF sendCalls' = 1
                   THEN Append(messages, [role |-> "user", content |-> line'])
                   ELSE <<>>

GetCompletionStep ==
    /\ last' = "get_completion"
    /\ query' = line'
    /\ attempts' = 1

\* C13 as stated: in the console loop exit and quit end the loop without a
\* submit, clear and reset clear the conversation without a submit or a
\* transport call, and every other line is submitted once.
C13_AsClaimed ==
    [][ ReadsLine =>
          /\ (line' \in ExitLines) => ExitStep
          /\ (line' \in ClearLines) => ClearStep
          /\ (line' \notin ExitLines \cup ClearLines) =>
                IF app = "openai" THEN SubmitStep ELSE GetCompletionStep
      ]_vars

\* C13 amended: the claim holds of the loop of OpenAIapiLLMapp; the loop of
\* AzureapiLLMapp knows exit and quit only and passes every other line,
\* clear and reset too, to get_completion, which makes one request.
C13_ConsoleCommands ==
    [][ ReadsLine =>
          /\ (line' \in ExitLines) => ExitStep
          /\ (app = "openai" /\ line' \in ClearLines) => ClearStep
          /\ (app = "openai" /\ line' \notin ExitLines \cup ClearLines) => SubmitStep
          /\ (app = "azure" /\ line' \notin ExitLines) => GetCompletionStep
      ]_vars

C13_Witness ==
    /\ app = "openai"
    /\ line = "Reset"
    /\ last = "clear_context"
    /\ running
    /\ messages = <<>>
    /\ Len(prior) = 2
    /\ attempts = 9

\* C14: every step leaves the transcript empty or equal to the transcript
\* before it with turns added at the end.
C14_MonotonicAppend ==
    [][ \/ messages' = <<>>
        \/ /\ Len(messages') >= Len(messages)
           /\ SubSeq(messages', 1, Len(messages)) = messages
      ]_vars

C14_Witness ==
    /\ Returned
    /\ Len(prior) = 2
    /\ Len(messages) = 4
    /\ SubSeq(messages, 1, 2) = prior
    /\ messages[3].role = "user"
    /\ messages[4].role = "assistant"

\* C15: whenever the transport is called the transcript it is given is not
\* empty, ends with the user turn of this send_query and counts at most
\* max_input_tokens, on the first attempt and on every retry.
C15_TransportGetsBudgetedTranscript ==
    /\ (pc = "sending") =>
          /\ messages # <<>>
          /\ messages[Len(messages)] = [role |-> "user", content |-> line]
          /\ messages = Counted
          /\ TokenCount(messages) <= max_input_tokens
    /\ (last = "send_query" /\ attempts > 0) =>
          /\ TokenCount(Counted) <= max_input_tokens
          /\ Len(messages) >= Len(Counted)
          /\ SubSeq(messages, 1, Len(Counted)) = Counted

C15_Witness ==
    /\ pc = "sending"
    /\ attempts = 3
    /\ Len(messages) = 2
    /\ TokenCount(messages) = max_input_tokens

Roles(msgs, r) == {i \in 1..Len(msgs) : msgs[i].role = r}

\* C16: a transcript that is not empty begins with a user turn, every
\* assistant turn follows a user turn, there are no more assistant turns
\* than user turns, and a user turn is appended after a user turn only when
\* the send_query before it failed to get a content.
C16_TurnShape ==
    /\ [](/\ (messages # <<>>) => (messages[1].role = "user")
          /\ \A i \in Roles(messages, "assistant") : i > 1 /\ messages[i - 1].role = "user"
          /\ Cardinality(Roles(messages, "assistant")) <= Cardinality(Roles(messages, "user"))
          /\ Roles(messages, "assistant") \cup Roles(messages, "user") = 1..Len(messages))
    /\ [][ (/\ messages # <<>>
            /\ Len(messages') = Len(messages) + 1
            /\ messages[Len(messages)].role = "user"
            /\ messages'[Len(messages')].role = "user")
           => (pc = "idle" /\ last = "send_query" /\ retryRet.content = None /\ ret = NoneNone)
      ]_vars

C16_Witness ==
    /\ Returned
    /\ Len(messages) = 4
    /\ messages[1].role = "user"
    /\ messages[2].role = "user"
    /\ messages[3].role = "user"
    /\ messages[4].role = "assistant"

C19_AsClaimed ==
    /\ (cred.phase = "main") =>
          cred.api_key = (IF cred.arg \notin {None, ""} THEN cred.arg
                          ELSE IF cred.env # None THEN cred.env
                          ELSE "your default api key")
    /\ (cred.used # NoRequest /\ cred.api_key # "your default api key")
          => (cred.used = cred.api_key)
    /\ (cred.used # NoRequest /\ cred.arg \notin {None, ""}) => (cred.used = cred.arg)

====
